---------------------------- MODULE Spec2Model ----------------------------
(***************************************************************************)
(* Model of sg3 (src/src/lib.rs): the three INQUIRY operations, the CDBs   *)
(* they hand to the SG_IO ioctl, the accessors of the returned buffers and *)
(* the nom parser of the Device Identification page (VPD 0x83).            *)
(*                                                                         *)
(* Byte buffers are sequences of integers 0..255.  Source offsets are      *)
(* 0-based: At(buf, i) is buf[i], Slice(buf, a, b) is buf[a..b].           *)
(***************************************************************************)
EXTENDS Integers, Sequences, FiniteSets, TLC

VARIABLES
    pc,         \* where the running call is: idle, ioctl, returned, done, panicked
    op,         \* the public operation running: inquiry, inquiry_vpd_80, inquiry_vpd_83
    cmd,        \* the CDB handed to the ioctl (cmd, sgbuf.cmdp)
    dxfer_len,  \* sgbuf.dxfer_len
    buf,        \* the response buffer (sgbuf.dxferp)
    ioctl_res,  \* how the ioctl ended: none, ok, err
    result,     \* what the operation returned
    acc         \* the accessor last called on the returned value, and what it gave

vars == <<pc, op, cmd, dxfer_len, buf, ioctl_res, result, acc>>

(***************************************************************************)
(* Bounds of the device responses the model enumerates.                    *)
(***************************************************************************)
\* longest designator payload the modelled device puts in one descriptor
MaxPayloadLen == 2
\* most descriptors the modelled device concatenates in one region
MaxDescs == 2
\* how far past the end of the descriptors the declared region length goes
MaxOverrun == 5

(***************************************************************************)
(* Program constants.                                                      *)
(***************************************************************************)
\* vec![0; 96] of StdInquiry::new
StdInquiryLen == 96
\* vec![0; 96] of InquiryVpd80::new
Vpd80Len == 96
\* [0u8; 1024] of inquiry_vpd_83
Vpd83Len == 1024

(***************************************************************************)
(* Slices.                                                                 *)
(***************************************************************************)
Zeros(n) == [i \in 1..n |-> 0]

At(b, i) == b[i + 1]

\* &b[lo..hi] is defined when lo <= hi <= b.len(); it panics otherwise
SliceOk(b, lo, hi) == lo <= hi /\ hi <= Len(b)

Slice(b, lo, hi) == SubSeq(b, lo + 1, hi)

\* b with the bytes of s written at offset off (the part that fits)
Overlay(b, off, s) ==
    [i \in 1..Len(b) |->
        IF i > off /\ i <= off + Len(s) THEN s[i - off] ELSE b[i]]

\* BigEndian::read_u16
read_u16(s) == s[1] * 256 + s[2]

\* BigEndian::write_u16 of a value already cast to u16
write_u16(n) == <<n \div 256, n % 256>>

\* x as u8, x as u16
as_u8(x) == x % 256

as_u16(x) == x % 65536

(***************************************************************************)
(* Results.                                                                *)
(***************************************************************************)
NoResult == [kind |-> "None"]

Ok(v) == [kind |-> "Ok", value |-> v]

Err(e, m) == [kind |-> "Err", err |-> e, msg |-> m]

Panic == [kind |-> "Panic"]

(***************************************************************************)
(* Enumerated field decoders.                                              *)
(***************************************************************************)
to_qualifier(i) ==
    CASE i = 0 -> "Connected"
      [] i = 1 -> "NotConnected"
      [] i = 2 -> "Reserved"
      [] i = 3 -> "NotCapable"
      [] i \in 4..7 -> "VS"
      [] OTHER -> "Reserved"

to_device_type(i) ==
    CASE i = 0 -> "DirectAccess"
      [] i = 1 -> "SequentialAccess"
      [] i = 2 -> "Printer"
      [] i = 3 -> "Processor"
      [] i = 4 -> "WriteOnce"
      [] i = 5 -> "CdDvd"
      [] i = 6 -> "Obsolete"
      [] i = 7 -> "OpticalMemory"
      [] i = 8 -> "MediaChanger"
      [] i \in 9..11 -> "Obsolete"
      [] i = 12 -> "StorageArrayController"
      [] i = 13 -> "EnclosureServices"
      [] i = 14 -> "SimplifiedDirectAccess"
      [] i = 15 -> "OpticalCardReader"
      [] i = 16 -> "Reserved"
      [] i = 17 -> "ObjectBasedStorage"
      [] i = 18 -> "AutomationDriveInterface"
      [] OTHER -> "Reserved"

to_association(i) ==
    CASE i = 0 -> "AddressedLogicalUnit"
      [] i = 1 -> "TargetPort"
      [] i = 2 -> "ScsiTargetDevice"
      [] OTHER -> "Reserved"

to_designator_type(i) ==
    CASE i = 0 -> "VS"
      [] i = 1 -> "T10VendorId"
      [] i = 2 -> "Eui64"
      [] i = 3 -> "Naa"
      [] i = 4 -> "RelativeTargetPortIdentifier"
      [] i = 5 -> "TargetPortGroup"
      [] i = 6 -> "LogicalUnitGroup"
      [] i = 7 -> "Md5LogicalUnitIdentifier"
      [] i = 8 -> "ScsiNameString"
      [] i = 9 -> "ProtocolSpecificPortIdentifier"
      [] OTHER -> "Reserved"

\* the gate of to_protocol dropped: the code is decoded whatever PIV and association are
to_protocol_ungated(ident, assoc, piv) ==
    CASE ident = 0 -> "Fcp"
      [] ident = 1 -> "Spi"
      [] ident = 2 -> "Ssa"
      [] ident = 3 -> "Sbp"
      [] ident = 4 -> "Srp"
      [] ident = 5 -> "IScsi"
      [] ident = 6 -> "Spl"
      [] ident = 7 -> "Adt"
      [] ident = 8 -> "Acs"
      [] ident = 9 -> "Uas"
      [] ident = 10 -> "Sop"
      [] ident \in 11..14 -> "Reserved"
      [] OTHER -> "Unspecified"

to_protocol(ident, assoc, piv) ==
    IF piv = 0 \/ ~(assoc = "TargetPort" \/ assoc = "ScsiTargetDevice")
    THEN "Reserved"
    ELSE CASE ident = 0 -> "Fcp"
           [] ident = 1 -> "Spi"
           [] ident = 2 -> "Ssa"
           [] ident = 3 -> "Sbp"
           [] ident = 4 -> "Srp"
           [] ident = 5 -> "IScsi"
           [] ident = 6 -> "Spl"
           [] ident = 7 -> "Adt"
           [] ident = 8 -> "Acs"
           [] ident = 9 -> "Uas"
           [] ident = 10 -> "Sop"
           [] ident \in 11..14 -> "Reserved"
           [] OTHER -> "Unspecified"

(***************************************************************************)
(* UTF-8: std::str::from_utf8 and String::from_utf8_lossy.                 *)
(***************************************************************************)
\* U+FFFD REPLACEMENT CHARACTER in UTF-8
REPLACEMENT == <<239, 191, 189>>

IsCont(b) == b \in 128..191

\* UTF8_CHAR_WIDTH: the length a lead byte announces, 0 for a byte that leads nothing
Utf8Width(b) ==
    CASE b \in 0..127 -> 1
      [] b \in 194..223 -> 2
      [] b \in 224..239 -> 3
      [] b \in 240..244 -> 4
      [] OTHER -> 0

\* the second byte a lead byte admits (overlong forms, surrogates and > U+10FFFF excluded)
SecondOk(lead, b) ==
    CASE lead = 224 -> b \in 160..191
      [] lead = 237 -> b \in 128..159
      [] lead = 240 -> b \in 144..191
      [] lead = 244 -> b \in 128..143
      [] OTHER -> IsCont(b)

\* The sequence at the head of a non-empty s: the bytes it takes and whether
\* they are one well-formed scalar value.  An ill-formed sequence takes its
\* maximal well-formed prefix (at least the first byte).
Utf8Step(s) ==
    LET w == Utf8Width(s[1]) IN
    IF w = 0 THEN [n |-> 1, ok |-> FALSE]
    ELSE IF w = 1 THEN [n |-> 1, ok |-> TRUE]
    ELSE IF Len(s) < 2 \/ ~SecondOk(s[1], s[2]) THEN [n |-> 1, ok |-> FALSE]
    ELSE IF w = 2 THEN [n |-> 2, ok |-> TRUE]
    ELSE IF Len(s) < 3 \/ ~IsCont(s[3]) THEN [n |-> 2, ok |-> FALSE]
    ELSE IF w = 3 THEN [n |-> 3, ok |-> TRUE]
    ELSE IF Len(s) < 4 \/ ~IsCont(s[4]) THEN [n |-> 3, ok |-> FALSE]
    ELSE [n |-> 4, ok |-> TRUE]

RECURSIVE Utf8Valid(_)
Utf8Valid(s) ==
    IF s = <<>> THEN TRUE
    ELSE LET st == Utf8Step(s) IN
         st.ok /\ Utf8Valid(SubSeq(s, st.n + 1, Len(s)))

\* from_utf8(s): Ok(the same bytes as text) or Err(Utf8Error)
from_utf8(s) ==
    IF Utf8Valid(s) THEN Ok(s) ELSE Err("Utf8Error", "invalid utf-8")

\* from_utf8_lossy(s): the text, as UTF-8 bytes, with U+FFFD for every ill-formed sequence
RECURSIVE from_utf8_lossy(_)
from_utf8_lossy(s) ==
    IF s = <<>> THEN <<>>
    ELSE LET st == Utf8Step(s) IN
         (IF st.ok THEN SubSeq(s, 1, st.n) ELSE REPLACEMENT)
            \o from_utf8_lossy(SubSeq(s, st.n + 1, Len(s)))

\* from_utf8(..).unwrap(): the text, or a panic
unwrap(r) == IF r.kind = "Ok" THEN [kind |-> "Str", data |-> r.value] ELSE Panic


(***************************************************************************)
(* StdInquiry: the 96-byte standard inquiry buffer and its accessors.      *)
(***************************************************************************)
StdInquiry_new == Zeros(StdInquiryLen)

\* u8 arithmetic: a & m and x >> n
RECURSIVE BitAnd(_, _)
BitAnd(a, m) ==
    IF a = 0 \/ m = 0 THEN 0
    ELSE (a % 2) * (m % 2) + 2 * BitAnd(a \div 2, m \div 2)

Shr(x, n) == x \div (2 ^ n)

Val(v) == [kind |-> "Val", data |-> v]

peripheral_qualifier(b) == to_qualifier(Shr(At(b, 0), 5))

peripheral_device_type(b) == to_device_type(BitAnd(At(b, 0), 31))

rmb(b) == Shr(BitAnd(At(b, 1), 128), 7)

lu_cong(b) == Shr(BitAnd(At(b, 1), 64), 6)

version(b) == At(b, 2)

norm_aca(b) == Shr(BitAnd(At(b, 3), 32), 5)

hi_sup(b) == Shr(BitAnd(At(b, 3), 16), 5)

response_data_format(b) == BitAnd(At(b, 3), 15)

sccs(b) == Shr(BitAnd(At(b, 5), 128), 7)

acc_(b) == Shr(BitAnd(At(b, 5), 64), 6)

tpgs(b) == Shr(BitAnd(At(b, 5), 48), 4)

third_party_copy(b) == Shr(BitAnd(At(b, 5), 8), 3)

protect(b) == BitAnd(At(b, 5), 1)

enc_serv(b) == Shr(BitAnd(At(b, 6), 64), 6)

multi_p(b) == Shr(BitAnd(At(b, 6), 16), 4)

addr16(b) == BitAnd(At(b, 6), 1)

wbus16(b) == Shr(BitAnd(At(b, 7), 32), 5)

sync(b) == Shr(BitAnd(At(b, 7), 16), 5)

cmd_que(b) == Shr(BitAnd(At(b, 7), 2), 1)

vendor(b) == unwrap(from_utf8(Slice(b, 8, 16)))

product_id(b) == unwrap(from_utf8(Slice(b, 16, 32)))

product_revision(b) == unwrap(from_utf8(Slice(b, 32, 36)))

FlagAccessors ==
    {"rmb", "lu_cong", "norm_aca", "hi_sup", "sccs", "acc", "third_party_copy",
     "protect", "enc_serv", "multi_p", "addr16", "wbus16", "sync", "cmd_que"}

TextAccessors == {"vendor", "product_id", "product_revision"}

StdAccessors ==
    FlagAccessors \cup TextAccessors
        \cup {"version", "response_data_format", "tpgs",
              "peripheral_qualifier", "peripheral_device_type"}

\* the outcome of calling the named accessor of a StdInquiry holding b
StdAccess(name, b) ==
    CASE name = "rmb" -> Val(rmb(b))
      [] name = "lu_cong" -> Val(lu_cong(b))
      [] name = "version" -> Val(version(b))
      [] name = "norm_aca" -> Val(norm_aca(b))
      [] name = "hi_sup" -> Val(hi_sup(b))
      [] name = "response_data_format" -> Val(response_data_format(b))
      [] name = "sccs" -> Val(sccs(b))
      [] name = "acc" -> Val(acc_(b))
      [] name = "tpgs" -> Val(tpgs(b))
      [] name = "third_party_copy" -> Val(third_party_copy(b))
      [] name = "protect" -> Val(protect(b))
      [] name = "enc_serv" -> Val(enc_serv(b))
      [] name = "multi_p" -> Val(multi_p(b))
      [] name = "addr16" -> Val(addr16(b))
      [] name = "wbus16" -> Val(wbus16(b))
      [] name = "sync" -> Val(sync(b))
      [] name = "cmd_que" -> Val(cmd_que(b))
      [] name = "peripheral_qualifier" ->
            [kind |-> "Enum", data |-> peripheral_qualifier(b)]
      [] name = "peripheral_device_type" ->
            [kind |-> "Enum", data |-> peripheral_device_type(b)]
      [] name = "vendor" -> vendor(b)
      [] name = "product_id" -> product_id(b)
      [] name = "product_revision" -> product_revision(b)

(***************************************************************************)
(* InquiryVpd80: the 96-byte unit serial number buffer.                    *)
(***************************************************************************)
InquiryVpd80_new == Zeros(Vpd80Len)

\* let length = read_u16(&buf[2..4]); from_utf8(&buf[4..length + 3]).unwrap()
serial_number(b) ==
    LET length == read_u16(Slice(b, 2, 4)) IN
    IF ~SliceOk(b, 4, length + 3) THEN Panic
    ELSE unwrap(from_utf8(Slice(b, 4, length + 3)))

Vpd80Accessors == {"serial_number", "peripheral_qualifier", "peripheral_device_type"}

Vpd80Access(name, b) ==
    CASE name = "serial_number" -> serial_number(b)
      [] name = "peripheral_qualifier" ->
            [kind |-> "Enum", data |-> peripheral_qualifier(b)]
      [] name = "peripheral_device_type" ->
            [kind |-> "Enum", data |-> peripheral_device_type(b)]

(***************************************************************************)
(* The command descriptor blocks.                                          *)
(***************************************************************************)
\* the allocation length written little-endian
inquiry_vpd_cdb_le(vpd, n) == <<18, 1, vpd>> \o <<as_u16(n) % 256, as_u16(n) \div 256>> \o <<0>>

\* cmd of inquiry: [0u8; 6] with cmd[0] = 0x12, cmd[4] = buf.len() as u8
inquiry_cdb(n) == <<18, 0, 0, 0, as_u8(n), 0>>

\* cmd of inquiry_vpd: cmd[0] = 0x12, cmd[1] = 1, cmd[2] = vpd, cmd[3..5] = buf.len() as u16
inquiry_vpd_cdb(vpd, n) == <<18, 1, vpd>> \o write_u16(as_u16(n)) \o <<0>>

(***************************************************************************)
(* Designators.                                                            *)
(***************************************************************************)
\* Return up to the first \0, or the entire slice
RECURSIVE slice_to_null(_)
slice_to_null(slc) ==
    IF slc = <<>> THEN <<>>
    ELSE IF slc[1] = 0 THEN <<>>
    ELSE <<slc[1]>> \o slice_to_null(Tail(slc))

Binary(data) == [kind |-> "Binary", data |-> data]

\* a String, held as the UTF-8 bytes of its text
String(text) == [kind |-> "String", data |-> text]

\* to_designator decoding the whole payload as text, its NUL bytes included
to_designator_whole(code, data) ==
    CASE code \in 0..1 -> Binary(data)
      [] code \in 2..3 -> String(from_utf8_lossy(data))
      [] OTHER -> Binary(data)

to_designator(code, data) ==
    CASE code \in 0..1 -> Binary(data)
      [] code \in 2..3 -> String(from_utf8_lossy(slice_to_null(data)))
      [] OTHER -> Binary(data)

(***************************************************************************)
(* nom: IResult and the combinators the parsers are built from.  Input is  *)
(* the unread rest of the buffer.                                          *)
(***************************************************************************)
Done(rest, out) == [tag |-> "Done", rest |-> rest, out |-> out]

Error(kind) == [tag |-> "Error", kind |-> kind]

Incomplete == [tag |-> "Incomplete"]

\* take!(n): the next n bytes, Incomplete when fewer are left
take(i, n) ==
    IF Len(i) < n THEN Incomplete
    ELSE Done(SubSeq(i, n + 1, Len(i)), SubSeq(i, 1, n))

be_u8(i) == IF Len(i) < 1 THEN Incomplete ELSE Done(Tail(i), i[1])

be_u16(i) ==
    IF Len(i) < 2 THEN Incomplete
    ELSE Done(SubSeq(i, 3, Len(i)), read_u16(i))

\* tag!(&[t]): the one byte t
tag(i, t) ==
    IF Len(i) < 1 THEN Incomplete
    ELSE IF i[1] # t THEN Error("Tag")
    ELSE Done(Tail(i), <<t>>)

\* complete!: Incomplete becomes an error
complete(r) == IF r.tag = "Incomplete" THEN Error("Complete") ELSE r

\* bits!(pair!(take_bits!(u8, 4), take_bits!(u8, 4)))
dd_byte0(i) ==
    IF Len(i) < 1 THEN Incomplete
    ELSE Done(Tail(i), <<i[1] \div 16, i[1] % 16>>)

\* bits!(tuple!(take_bits 1, take_bits 1, take_bits 2, take_bits 4))
dd_byte1(i) ==
    IF Len(i) < 1 THEN Incomplete
    ELSE Done(Tail(i),
              <<i[1] \div 128, (i[1] \div 64) % 2, (i[1] \div 16) % 4, i[1] % 16>>)

\* bits!(pair!(take_bits!(u8, 3), take_bits!(u8, 5)))
periph(i) ==
    IF Len(i) < 1 THEN Incomplete
    ELSE Done(Tail(i), <<i[1] \div 32, i[1] % 32>>)

DesignationDescriptor(byte0, byte1, designator) ==
    [protocol |-> to_protocol(byte0[1], to_association(byte1[3]), byte1[1]),
     association |-> to_association(byte1[3]),
     designator_type |-> to_designator_type(byte1[4]),
     designator |-> to_designator(byte0[2], designator)]

\* do_parse!(byte0 >> byte1 >> take!(1) >> length: be_u8 >> designator: take!(length))
des_desc(i) ==
    LET r0 == dd_byte0(i) IN
    IF r0.tag # "Done" THEN r0 ELSE
    LET r1 == dd_byte1(r0.rest) IN
    IF r1.tag # "Done" THEN r1 ELSE
    LET r2 == take(r1.rest, 1) IN
    IF r2.tag # "Done" THEN r2 ELSE
    LET r3 == be_u8(r2.rest) IN
    IF r3.tag # "Done" THEN r3 ELSE
    LET r4 == take(r3.rest, r3.out) IN
    IF r4.tag # "Done" THEN r4 ELSE
    Done(r4.rest, DesignationDescriptor(r0.out, r1.out, r4.out))

\* many0!(des_desc): the loop, with the descriptors collected so far in res
RECURSIVE many0_des_desc(_, _)
many0_des_desc(input, res) ==
    IF Len(input) = 0 THEN Done(input, res)
    ELSE LET r == des_desc(input) IN
         CASE r.tag = "Error" -> Done(input, res)
           [] r.tag = "Incomplete" -> Incomplete
           [] OTHER ->
                IF r.rest = input THEN Error("Many0")
                ELSE many0_des_desc(r.rest, Append(res, r.out))

\* many0 collecting the newest descriptor first
RECURSIVE many0_des_desc_prepend(_, _)
many0_des_desc_prepend(input, res) ==
    IF Len(input) = 0 THEN Done(input, res)
    ELSE LET r == des_desc(input) IN
         CASE r.tag = "Error" -> Done(input, res)
           [] r.tag = "Incomplete" -> Incomplete
           [] OTHER ->
                IF r.rest = input THEN Error("Many0")
                ELSE many0_des_desc_prepend(r.rest, <<r.out>> \o res)

des_descs_prepend(i) == many0_des_desc_prepend(i, <<>>)

des_descs(i) == many0_des_desc(i, <<>>)

\* length_value!(be_u16, des_descs): des_descs, completed, on the next be_u16 bytes
length_value_des_descs(i) ==
    LET rl == be_u16(i) IN
    IF rl.tag # "Done" THEN rl ELSE
    LET rt == take(rl.rest, rl.out) IN
    IF rt.tag # "Done" THEN rt ELSE
    LET rv == complete(des_descs(rt.out)) IN
    IF rv.tag # "Done" THEN rv ELSE
    Done(rt.rest, rv.out)

\* do_parse!(per: periph >> tag!(0x83) >> descs: length_value!(be_u16, des_descs))
vpd83(i) ==
    LET rp == periph(i) IN
    IF rp.tag # "Done" THEN rp ELSE
    LET rg == tag(rp.rest, 131) IN
    IF rg.tag # "Done" THEN rg ELSE
    LET rd == length_value_des_descs(rg.rest) IN
    IF rd.tag # "Done" THEN rd ELSE
    Done(rd.rest,
         [qualifier |-> to_qualifier(rp.out[1]),
          device_type |-> to_device_type(rp.out[2]),
          descriptors |-> rd.out])

\* IResult::to_result: Done is Ok, Error is Err, Incomplete panics
to_result(r) ==
    CASE r.tag = "Done" -> Ok(r.out)
      [] r.tag = "Error" -> Err("Nom", r.kind)
      [] OTHER -> Panic

(***************************************************************************)
(* What the three operations return once the ioctl is back.                *)
(***************************************************************************)
\* the format check of inquiry made before the outcome of the ioctl is looked at
inquiry_result_check_first(res, b) ==
    IF response_data_format(b) # 2
    THEN Err("Io", "Unknown/unsupported response data format")
    ELSE IF res = "err" THEN Err("Nix", "ioctl")
    ELSE Ok([buf |-> b])

inquiry_result(res, b) ==
    IF res = "err" THEN Err("Nix", "ioctl")
    ELSE IF response_data_format(b) # 2
    THEN Err("Io", "Unknown/unsupported response data format")
    ELSE Ok([buf |-> b])

inquiry_vpd_result(res) ==
    IF res = "err" THEN Err("Nix", "ioctl") ELSE Ok(<<>>)

inquiry_vpd_80_result(res, b) ==
    IF inquiry_vpd_result(res).kind = "Err" THEN inquiry_vpd_result(res)
    ELSE Ok([buf |-> b])

inquiry_vpd_83_result(res, b) ==
    IF inquiry_vpd_result(res).kind = "Err" THEN inquiry_vpd_result(res)
    ELSE to_result(vpd83(b))

(***************************************************************************)
(* The device: the responses the SG_IO ioctl may leave in the buffer.      *)
(***************************************************************************)
\* byte 3 of a standard inquiry response: NORM_ACA, HI_SUP, response data format
Byte3Vals == {2, 18, 34, 50, 3, 0}

FlagBytePos == {1, 5, 6, 7}

FlagVals == {0, 255} \cup {2 ^ k : k \in 0..7}

TextOffsets == {8, 15, 16, 31, 32, 35}

\* "A", a lone continuation byte, U+00E9, a lead byte with nothing after it
TextSeqs == {<<65>>, <<128>>, <<195, 169>>, <<195>>}

StdResponses ==
    LET base(b3) == Overlay(StdInquiry_new, 3, <<b3>>) IN
    {Overlay(base(b3), p, <<v>>) : b3 \in Byte3Vals, p \in FlagBytePos, v \in FlagVals}
        \cup {Overlay(base(b3), o, t) : b3 \in Byte3Vals, o \in TextOffsets, t \in TextSeqs}

\* "HELLO", "H", U+00E9, "LO", and a lone continuation byte
SerialTexts == {<<72, 69, 76, 76, 79>>, <<72, 195, 169, 76, 79>>, <<128>>}

SerialLengths == {0, 1, 3, 5, 6, 92, 93, 94, 255, 256, 65535}

Vpd80Responses ==
    {Overlay(Overlay(InquiryVpd80_new, 0, <<b0, 128>> \o write_u16(n)), 4, t) :
        b0 \in {0, 101}, n \in SerialLengths, t \in SerialTexts}

\* NUL, "A", a continuation byte, a two-byte lead
PayloadBytes == {0, 65, 128, 195}

RECURSIVE SeqsUpTo(_, _)
SeqsUpTo(S, n) ==
    IF n = 0 THEN {<<>>}
    ELSE LET shorter == SeqsUpTo(S, n - 1) IN
         shorter \cup {Append(s, x) : s \in shorter, x \in S}

Payloads == SeqsUpTo(PayloadBytes, MaxPayloadLen)

\* one designation descriptor as the device lays it out
Desc(b0, b1, b2, p) == <<b0, b1, b2, Len(p)>> \o p

\* every code set with every payload
PayloadDescs == {Desc(c, 145, 0, p) : c \in 0..15, p \in Payloads}

\* every protocol code with every PIV, reserved bit and association; every designator type
HeaderDescs ==
    {Desc(16 * code + 1, 128 * piv + 64 * r + 16 * a + 3, 0, <<65>>) :
        code \in 0..15, piv \in 0..1, r \in 0..1, a \in 0..3}
        \cup {Desc(1, 144 + t, 7, <<>>) : t \in 0..15}

\* the descriptors the device strings together
SeqDescs ==
    {Desc(0, 129, 0, <<65, 66>>), Desc(2, 145, 0, <<65, 0, 66>>),
     Desc(163, 163, 7, <<>>), Desc(1, 17, 0, <<128>>)}

RECURSIVE Concat(_)
Concat(ss) == IF ss = <<>> THEN <<>> ELSE ss[1] \o Concat(Tail(ss))

\* descriptors that fill the whole buffer after the 4-byte header
FullRegion ==
    LET big == Desc(1, 145, 0, [k \in 1..255 |-> 65])
        room == Vpd83Len - 4 - 3 * Len(big)
    IN big \o big \o big \o Desc(1, 145, 0, [k \in 1..(room - 4) |-> 66])

Vpd83Response(b0, page, n, content) ==
    Overlay(Zeros(Vpd83Len), 0, <<b0, page>> \o write_u16(n) \o content)

Vpd83Responses ==
    {Vpd83Response(0, 131, Len(d), d) : d \in PayloadDescs \cup HeaderDescs}
        \cup {Vpd83Response(b0, 131, n, Concat(ds)) :
                b0 \in {0, 101},
                n \in {Vpd83Len - 3, Vpd83Len, 65535},
                ds \in SeqsUpTo(SeqDescs, 1)}
        \cup {Vpd83Response(0, 131, n, FullRegion) :
                n \in (Vpd83Len - 6)..(Vpd83Len - 3)}
        \cup UNION {{Vpd83Response(0, page, n, Concat(ds)) :
                        page \in {131, 128},
                        n \in 0..(Len(Concat(ds)) + MaxOverrun)} :
                     ds \in SeqsUpTo(SeqDescs, MaxDescs)}

Responses(o) ==
    CASE o = "inquiry" -> StdResponses
      [] o = "inquiry_vpd_80" -> Vpd80Responses
      [] o = "inquiry_vpd_83" -> Vpd83Responses

\* what a failed ioctl may have left in the buffer
ErrResponses(o) ==
    CASE o = "inquiry" ->
            {StdInquiry_new, Overlay(StdInquiry_new, 3, <<2>>),
             Overlay(StdInquiry_new, 3, <<3>>)}
      [] o = "inquiry_vpd_80" -> {InquiryVpd80_new}
      [] o = "inquiry_vpd_83" ->
            {Zeros(Vpd83Len), Vpd83Response(0, 131, 6, Desc(0, 129, 0, <<65, 66>>))}

(***************************************************************************)
(* The state machine.                                                      *)
(***************************************************************************)
NoAccess == [fn |-> "none", out |-> NoResult]

Init ==
    /\ pc = "idle"
    /\ op = "none"
    /\ cmd = <<>>
    /\ dxfer_len = 0
    /\ buf = <<>>
    /\ ioctl_res = "none"
    /\ result = NoResult
    /\ acc = NoAccess

\* OpenOptions::new().read(true).open(path) fails: try! returns Err(Io)
OpenFails ==
    /\ pc = "idle"
    /\ \E o \in {"inquiry", "inquiry_vpd_80", "inquiry_vpd_83"} : op' = o
    /\ result' = Err("Io", "open")
    /\ pc' = "done"
    /\ UNCHANGED <<cmd, dxfer_len, buf, ioctl_res, acc>>

\* inquiry up to the ioctl: the buffer, the CDB, the sg_io_hdr
inquiry_begin ==
    /\ pc = "idle"
    /\ op' = "inquiry"
    /\ buf' = StdInquiry_new
    /\ cmd' = inquiry_cdb(Len(buf'))
    /\ dxfer_len' = Len(buf')
    /\ pc' = "ioctl"
    /\ UNCHANGED <<ioctl_res, result, acc>>

\* inquiry_vpd up to the ioctl, on the buffer b of its caller
inquiry_vpd_begin(vpd, b) ==
    /\ buf' = b
    /\ cmd' = inquiry_vpd_cdb(vpd, Len(b))
    /\ dxfer_len' = Len(b)
    /\ pc' = "ioctl"
    /\ UNCHANGED <<ioctl_res, result, acc>>

inquiry_vpd_80_begin ==
    /\ pc = "idle"
    /\ op' = "inquiry_vpd_80"
    /\ inquiry_vpd_begin(128, InquiryVpd80_new)

inquiry_vpd_83_begin ==
    /\ pc = "idle"
    /\ op' = "inquiry_vpd_83"
    /\ inquiry_vpd_begin(131, Zeros(Vpd83Len))

\* ioctl(SG_IO): the device fills the buffer, or the exchange fails
Ioctl ==
    /\ pc = "ioctl"
    /\ \/ /\ ioctl_res' = "ok"
          /\ buf' \in Responses(op)
       \/ /\ ioctl_res' = "err"
          /\ buf' \in ErrResponses(op)
    /\ pc' = "returned"
    /\ UNCHANGED <<op, cmd, dxfer_len, result, acc>>

Finish(r) ==
    /\ result' = r
    /\ pc' = IF r.kind = "Panic" THEN "panicked" ELSE "done"
    /\ UNCHANGED <<op, cmd, dxfer_len, buf, ioctl_res, acc>>

inquiry_end ==
    /\ pc = "returned"
    /\ op = "inquiry"
    /\ Finish(inquiry_result(ioctl_res, buf))

inquiry_vpd_80_end ==
    /\ pc = "returned"
    /\ op = "inquiry_vpd_80"
    /\ Finish(inquiry_vpd_80_result(ioctl_res, buf))

inquiry_vpd_83_end ==
    /\ pc = "returned"
    /\ op = "inquiry_vpd_83"
    /\ Finish(inquiry_vpd_83_result(ioctl_res, buf))

Access(name, out) ==
    /\ acc' = [fn |-> name, out |-> out]
    /\ pc' = IF out.kind = "Panic" THEN "panicked" ELSE "done"
    /\ UNCHANGED <<op, cmd, dxfer_len, buf, ioctl_res, result>>

\* the caller reads a field of the StdInquiry it was given
StdInquiry_access ==
    /\ pc = "done"
    /\ op = "inquiry"
    /\ result.kind = "Ok"
    /\ \E name \in StdAccessors : Access(name, StdAccess(name, result.value.buf))

\* the caller reads a field of the InquiryVpd80 it was given
InquiryVpd80_access ==
    /\ pc = "done"
    /\ op = "inquiry_vpd_80"
    /\ result.kind = "Ok"
    /\ \E name \in Vpd80Accessors : Access(name, Vpd80Access(name, result.value.buf))

\* the caller drops the result; the next call starts from nothing
Drop ==
    /\ pc = "done"
    /\ pc' = "idle"
    /\ op' = "none"
    /\ cmd' = <<>>
    /\ dxfer_len' = 0
    /\ buf' = <<>>
    /\ ioctl_res' = "none"
    /\ result' = NoResult
    /\ acc' = NoAccess

Next ==
    \/ OpenFails
    \/ inquiry_begin
    \/ inquiry_vpd_80_begin
    \/ inquiry_vpd_83_begin
    \/ Ioctl
    \/ inquiry_end
    \/ inquiry_vpd_80_end
    \/ inquiry_vpd_83_end
    \/ StdInquiry_access
    \/ InquiryVpd80_access
    \/ Drop

Spec == Init /\ [][Next]_vars

(***************************************************************************)
(* The response as the claims read it: the header fields of a VPD page and *)
(* the descriptors its region is made of, by offsets alone.                *)
(***************************************************************************)
Returned == pc \in {"done", "panicked"}

\* inquiry_vpd_83 has come back from a successful exchange
Vpd83Parsed == Returned /\ op = "inquiry_vpd_83" /\ ioctl_res = "ok"

PageCode(b) == At(b, 1)

DeclaredLen(b) == At(b, 2) * 256 + At(b, 3)

RegionFits(b) == DeclaredLen(b) + 4 <= Len(b)

Region(b) == Slice(b, 4, 4 + DeclaredLen(b))

\* the region is descriptors back to back, each with its 4 header bytes and its L payload bytes
RECURSIVE RegionWellFormed(_)
RegionWellFormed(r) ==
    \/ r = <<>>
    \/ /\ Len(r) >= 4
       /\ Len(r) >= 4 + r[4]
       /\ RegionWellFormed(SubSeq(r, 5 + r[4], Len(r)))

\* the descriptors of a well-formed region, in order of appearance
RECURSIVE RegionDescs(_)
RegionDescs(r) ==
    IF r = <<>> THEN <<>>
    ELSE <<SubSeq(r, 1, 4 + r[4])>> \o RegionDescs(SubSeq(r, 5 + r[4], Len(r)))

DescPayload(d) == SubSeq(d, 5, Len(d))

DescProtocolCode(d) == d[1] \div 16

DescCodeSet(d) == d[1] % 16

DescPiv(d) == d[2] \div 128

DescAssociationCode(d) == (d[2] \div 16) % 4

DescTypeCode(d) == d[2] % 16

\* a page the claims call parseable: page code 0x83, a region that fits and splits
Vpd83WellFormed(b) ==
    /\ PageCode(b) = 131
    /\ RegionFits(b)
    /\ RegionWellFormed(Region(b))

\* the descriptors of the page in the buffer, next to those the parse returned
SentDescs == RegionDescs(Region(buf))

ParsedDescs == result.value.descriptors

Vpd83Ok == Vpd83Parsed /\ result.kind = "Ok" /\ Vpd83WellFormed(buf)

(***************************************************************************)
(* C1: VPD-83 parsing is all-or-nothing: a buffer whose byte 1 is not 0x83,*)
(* whose declared region length exceeds the bytes after the header, or     *)
(* whose region holds a truncated descriptor, makes the call return an     *)
(* error (no panic, no Ok with the descriptors parsed before).             *)
(***************************************************************************)
C1_ViolationReturnsError ==
    (Vpd83Parsed /\ ~Vpd83WellFormed(buf)) => result.kind = "Err"

(***************************************************************************)
(* C2: serial_number returns exactly the `length` bytes after the 4-byte   *)
(* header, length being the big-endian u16 at bytes 2-3, whenever          *)
(* length + 4 <= buffer size.                                              *)
(***************************************************************************)
C2_SerialIsDeclaredBytes ==
    (op = "inquiry_vpd_80" /\ acc.fn = "serial_number" /\ RegionFits(buf))
        => acc.out = [kind |-> "Str", data |-> Region(buf)]

(***************************************************************************)
(* C3: serial_number never ends in a panic, whatever the 16-bit length     *)
(* field of the 96-byte buffer holds.                                      *)
(***************************************************************************)
C3_SerialNeverPanics ==
    (op = "inquiry_vpd_80" /\ acc.fn = "serial_number") => acc.out.kind # "Panic"

ProtocolTable ==
    <<"Fcp", "Spi", "Ssa", "Sbp", "Srp", "IScsi", "Spl", "Adt", "Acs", "Uas", "Sop",
      "Reserved", "Reserved", "Reserved", "Reserved", "Unspecified">>

GatePasses(d) == DescPiv(d) = 1 /\ DescAssociationCode(d) \in {1, 2}

(***************************************************************************)
(* C4: the protocol of every parsed descriptor is Reserved when PIV = 0 or *)
(* the association is neither TargetPort (1) nor ScsiTargetDevice (2), and *)
(* otherwise follows the table 0 Fcp .. 0xa Sop, 0xb-0xe Reserved,         *)
(* 0xf Unspecified; so a known or Unspecified protocol implies PIV set and *)
(* one of those two associations.                                          *)
(***************************************************************************)
C4_ProtocolGate ==
    Vpd83Ok =>
        \A i \in 1..Len(ParsedDescs) :
            /\ i <= Len(SentDescs)
            /\ LET d == SentDescs[i]
                   p == ParsedDescs[i].protocol
               IN /\ ~GatePasses(d) => p = "Reserved"
                  /\ GatePasses(d) => p = ProtocolTable[DescProtocolCode(d) + 1]
                  /\ p # "Reserved" =>
                        /\ DescPiv(d) = 1
                        /\ ParsedDescs[i].association \in {"TargetPort", "ScsiTargetDevice"}

\* a descriptor with code 0xa, PIV set and association ScsiTargetDevice came out as Sop
C4_Witness ==
    /\ Vpd83Ok
    /\ \E i \in 1..Len(ParsedDescs) :
          /\ i <= Len(SentDescs)
          /\ DescProtocolCode(SentDescs[i]) = 10
          /\ DescPiv(SentDescs[i]) = 1
          /\ DescAssociationCode(SentDescs[i]) = 2
          /\ ParsedDescs[i].protocol = "Sop"

\* the payload up to but excluding its first NUL
RECURSIVE BeforeNul(_)
BeforeNul(p) ==
    IF p = <<>> \/ p[1] = 0 THEN <<>> ELSE <<p[1]>> \o BeforeNul(Tail(p))

(***************************************************************************)
(* C5 as stated: with code set 2 or 3 the designator is a String holding   *)
(* the payload bytes before the first NUL; with any other code set it is   *)
(* Binary holding all L payload bytes.                                     *)
(***************************************************************************)
C5_Original ==
    Vpd83Ok =>
        \A i \in 1..Len(ParsedDescs) :
            /\ i <= Len(SentDescs)
            /\ LET d == SentDescs[i]
                   g == ParsedDescs[i].designator
               IN IF DescCodeSet(d) \in {2, 3}
                  THEN g = [kind |-> "String", data |-> BeforeNul(DescPayload(d))]
                  ELSE g = [kind |-> "Binary", data |-> DescPayload(d)]

HasReplacement(t) ==
    \E k \in 1..(Len(t) - 2) : SubSeq(t, k, k + 2) = REPLACEMENT

(***************************************************************************)
(* C5 as amended: with code set 2 or 3 the designator is a String holding  *)
(* the lossy UTF-8 decoding of the payload bytes before the first NUL:     *)
(* those bytes themselves when they are valid UTF-8, and otherwise valid   *)
(* UTF-8 text in which U+FFFD stands for the invalid sequences; with any   *)
(* other code set it is Binary holding all L payload bytes.                *)
(***************************************************************************)
C5_LossyText ==
    Vpd83Ok =>
        \A i \in 1..Len(ParsedDescs) :
            /\ i <= Len(SentDescs)
            /\ LET d == SentDescs[i]
                   g == ParsedDescs[i].designator
                   t == BeforeNul(DescPayload(d))
               IN IF DescCodeSet(d) \in {2, 3}
                  THEN /\ g.kind = "String"
                       /\ Utf8Valid(g.data)
                       /\ Utf8Valid(t) => g.data = t
                       /\ ~Utf8Valid(t) => (g.data # t /\ HasReplacement(g.data))
                       /\ g.data = from_utf8_lossy(t)
                  ELSE g = [kind |-> "Binary", data |-> DescPayload(d)]

\* a text payload of a continuation byte and a NUL came out as the one character U+FFFD
C5_Witness ==
    /\ Vpd83Ok
    /\ \E i \in 1..Len(ParsedDescs) :
          /\ i <= Len(SentDescs)
          /\ DescCodeSet(SentDescs[i]) = 2
          /\ DescPayload(SentDescs[i]) = <<128, 0>>
          /\ ParsedDescs[i].designator = [kind |-> "String", data |-> REPLACEMENT]

UnsupportedFormat == Err("Io", "Unknown/unsupported response data format")

Format(b) == At(b, 3) % 16

(***************************************************************************)
(* C6: inquiry returns a StdInquiry only after a successful exchange whose *)
(* response data format (low 4 bits of byte 3) is 2; a failed exchange is  *)
(* returned as the transport error whatever the buffer holds, and a        *)
(* successful one with any other format fails with the unsupported-format  *)
(* error.  Nothing is returned before the CDB is built and the exchange is *)
(* over.                                                                   *)
(***************************************************************************)
C6_InquiryOrder ==
    op = "inquiry" =>
        /\ pc \in {"ioctl", "returned"} => result.kind = "None"
        /\ (Returned /\ cmd # <<>>) =>
              /\ cmd = <<18, 0, 0, 0, 96, 0>>
              /\ ioctl_res \in {"ok", "err"}
              /\ ioctl_res = "err" => result = Err("Nix", "ioctl")
              /\ (ioctl_res = "ok" /\ Format(buf) # 2) => result = UnsupportedFormat
              /\ (ioctl_res = "ok" /\ Format(buf) = 2) => result = Ok([buf |-> buf])
        /\ result.kind = "Ok" => (ioctl_res = "ok" /\ Format(buf) = 2)

\* a successful exchange that answered with format 3 ended in the unsupported-format error
C6_Witness ==
    /\ op = "inquiry"
    /\ pc = "done"
    /\ ioctl_res = "ok"
    /\ Format(buf) = 3
    /\ result = UnsupportedFormat

\* the descriptor the bytes d stand for
Decoded(d) ==
    [protocol |-> to_protocol(DescProtocolCode(d),
                              to_association(DescAssociationCode(d)), DescPiv(d)),
     association |-> to_association(DescAssociationCode(d)),
     designator_type |-> to_designator_type(DescTypeCode(d)),
     designator |-> to_designator(DescCodeSet(d), DescPayload(d))]

(***************************************************************************)
(* C7: a page with code 0x83 whose region is k >= 0 well-formed            *)
(* descriptors back to back parses to exactly k descriptors, the i-th      *)
(* built from the bytes of the i-th, in order of appearance.               *)
(***************************************************************************)
C7_OrderPreserved ==
    (Vpd83Parsed /\ Vpd83WellFormed(buf)) =>
        /\ result.kind = "Ok"
        /\ Len(ParsedDescs) = Len(SentDescs)
        /\ \A i \in 1..Len(SentDescs) : ParsedDescs[i] = Decoded(SentDescs[i])

\* a region of two different descriptors, the second one the example of the claim
C7_Witness ==
    /\ Vpd83Parsed
    /\ Vpd83WellFormed(buf)
    /\ Region(buf) = <<2, 145, 0, 3, 65, 0, 66>> \o <<0, 129, 0, 2, 65, 66>>
    /\ Len(ParsedDescs) = 2
    /\ ParsedDescs[1].designator = [kind |-> "String", data |-> <<65>>]
    /\ ParsedDescs[2].designator = [kind |-> "Binary", data |-> <<65, 66>>]

AtTransport == pc \in {"ioctl", "returned"} \/ ioctl_res # "none"

(***************************************************************************)
(* C8: the CDB handed to the transport is 6 bytes: [0x12, 0, 0, 0, 96, 0]  *)
(* for inquiry and [0x12, 1, page, n div 256, n mod 256, 0] for a VPD page *)
(* with a response buffer of n bytes; its allocation length is the length  *)
(* of the response buffer given to the transport.                          *)
(***************************************************************************)
C8_CdbLayout ==
    AtTransport =>
        /\ Len(cmd) = 6
        /\ dxfer_len = Len(buf)
        /\ op = "inquiry" =>
              /\ cmd = <<18, 0, 0, 0, 96, 0>>
              /\ cmd[5] = dxfer_len
        /\ op = "inquiry_vpd_80" =>
              /\ cmd = <<18, 1, 128, 0, 96, 0>>
              /\ cmd = <<18, 1, 128, Len(buf) \div 256, Len(buf) % 256, 0>>
              /\ cmd[4] * 256 + cmd[5] = dxfer_len
        /\ op = "inquiry_vpd_83" =>
              /\ cmd = <<18, 1, 131, 4, 0, 0>>
              /\ cmd = <<18, 1, 131, Len(buf) \div 256, Len(buf) % 256, 0>>
              /\ cmd[4] * 256 + cmd[5] = dxfer_len

\* the VPD 0x83 request is at the transport with its 1024-byte buffer
C8_Witness ==
    /\ pc = "ioctl"
    /\ op = "inquiry_vpd_83"
    /\ cmd = <<18, 1, 131, 4, 0, 0>>
    /\ Len(buf) = 1024

TextRange(name, b) ==
    CASE name = "vendor" -> Slice(b, 8, 16)
      [] name = "product_id" -> Slice(b, 16, 32)
      [] name = "product_revision" -> Slice(b, 32, 36)

(***************************************************************************)
(* C9: vendor (bytes 8-15), product_id (16-31) and product_revision        *)
(* (32-35) never panic: on a range that is not valid UTF-8 they return a   *)
(* decode error, on a valid one exactly those bytes as text.               *)
(***************************************************************************)
C9_TextAccessorsReturn ==
    (op = "inquiry" /\ acc.fn \in TextAccessors) =>
        /\ acc.out.kind # "Panic"
        /\ Utf8Valid(TextRange(acc.fn, buf)) =>
              acc.out = [kind |-> "Str", data |-> TextRange(acc.fn, buf)]
        /\ ~Utf8Valid(TextRange(acc.fn, buf)) => acc.out.kind = "Err"

\* bit k of byte i of b
Bit(b, i, k) == (At(b, i) \div (2 ^ k)) % 2

FlagBit(name, b) ==
    CASE name = "rmb" -> Bit(b, 1, 7)
      [] name = "lu_cong" -> Bit(b, 1, 6)
      [] name = "norm_aca" -> Bit(b, 3, 5)
      [] name = "hi_sup" -> Bit(b, 3, 4)
      [] name = "sccs" -> Bit(b, 5, 7)
      [] name = "acc" -> Bit(b, 5, 6)
      [] name = "third_party_copy" -> Bit(b, 5, 3)
      [] name = "protect" -> Bit(b, 5, 0)
      [] name = "enc_serv" -> Bit(b, 6, 6)
      [] name = "multi_p" -> Bit(b, 6, 4)
      [] name = "addr16" -> Bit(b, 6, 0)
      [] name = "wbus16" -> Bit(b, 7, 5)
      [] name = "sync" -> Bit(b, 7, 4)
      [] name = "cmd_que" -> Bit(b, 7, 1)

(***************************************************************************)
(* C10: every single-bit flag accessor returns 1 exactly when its bit is   *)
(* set in the buffer and 0 otherwise, and leaves the buffer unchanged.     *)
(***************************************************************************)
C10_FlagsReadTheirBit ==
    (op = "inquiry" /\ acc.fn \in FlagAccessors) =>
        /\ acc.out = [kind |-> "Val", data |-> FlagBit(acc.fn, buf)]
        /\ result.value.buf = buf

============================================================================
